---- MODULE Spec2Model ----
(***************************************************************************)
(* Model of the markdown compiler of src/compiler.py: the Lexer (tokenize  *)
(* and its recognizers), the Parser (parse and its block parsers) and the  *)
(* CodeGen (gen, escape_html).  Strings are sequences of one-character     *)
(* strings; Python's 0-based indexing is kept through Ch, Drop and Slice.  *)
(***************************************************************************)
EXTENDS Integers, Sequences, FiniteSets, TLC

VARIABLES
  entry,      \* which public method was called: compile, parse, escape_html
  input,      \* the argument of compile / escape_html (a string)
  pc,         \* lex, parse, gen, escape, done, raised
  md,         \* Lexer.md  : the remaining input
  tks,        \* Lexer.tks / Parser.tks
  tks_start,  \* Parser.tks_start
  root,       \* Parser.root.children
  html,       \* the string returned by gen / escape_html
  err         \* the exception that ended the call ("" if none)

vars == <<entry, input, pc, md, tks, tks_start, root, html, err>>

------------------------------------------------------------------------------
(* Python strings and slices *)

NL == "\n"

\* the backquote character (SANY's lexer does not accept it inside a string)
Backtick == "backquote"

\* s[i] (0-based)
Ch(s, i) == s[i + 1]

\* s[n:]
Drop(s, n) == IF n >= Len(s) THEN << >> ELSE SubSeq(s, n + 1, Len(s))

\* s[:n]
Take(s, n) == IF n >= Len(s) THEN s ELSE IF n <= 0 THEN << >> ELSE SubSeq(s, 1, n)

\* s[a:b] for 0 <= a
Slice(s, a, b) == IF b <= a THEN << >> ELSE Drop(Take(s, b), a)

\* s.startswith(p)
StartsWith(s, p) == Len(s) >= Len(p) /\ SubSeq(s, 1, Len(p)) = p

\* the least i in lo..Len(s)-1 with s[i] = c, or Len(s) if there is none
RECURSIVE IndexFrom(_, _, _)
IndexFrom(s, c, lo) ==
  IF lo >= Len(s) THEN Len(s)
  ELSE IF Ch(s, lo) = c THEN lo
  ELSE IndexFrom(s, c, lo + 1)

\* the number of characters equal to c at the front of s, counted from lo
RECURSIVE RunLen(_, _, _)
RunLen(s, c, lo) ==
  IF lo < Len(s) /\ Ch(s, lo) = c THEN 1 + RunLen(s, c, lo + 1) ELSE 0

\* s.replace(c, '')
RECURSIVE Remove(_, _)
Remove(s, c) ==
  IF s = << >> THEN << >>
  ELSE IF Head(s) = c THEN Remove(Tail(s), c)
  ELSE <<Head(s)>> \o Remove(Tail(s), c)

\* the number of occurrences of c in s
RECURSIVE Count(_, _)
Count(s, c) ==
  IF s = << >> THEN 0
  ELSE (IF Head(s) = c THEN 1 ELSE 0) + Count(Tail(s), c)

\* the characters the regular-expression classes \s, [a-z] and [0-9] accept
IsSpace(c) == c \in {" ", NL, "\t", "\r"}
Lower == {"a", "b", "c", "d", "e", "f", "g", "h", "i", "j", "k", "l", "m",
          "n", "o", "p", "q", "r", "s", "t", "u", "v", "w", "x", "y", "z"}
Digits == <<"0", "1", "2", "3", "4", "5", "6", "7", "8", "9">>
IsDigit(c) == \E d \in 1..10 : Digits[d] = c
DigitVal(c) == (CHOOSE d \in 1..10 : Digits[d] = c) - 1

------------------------------------------------------------------------------
(* Lexer tokens *)

HeaderToken(size) == [type |-> "Header", size |-> size]
TextToken(text, bold, italic) ==
  [type |-> "Text", text |-> text, bold |-> bold, italic |-> italic]
ListItemToken(indent, ordered, digit) ==
  [type |-> "ListItem", indent |-> indent, ordered |-> ordered, digit |-> digit]
CodeBlockToken(lang, code) == [type |-> "CodeBlock", lang |-> lang, code |-> code]
CodeInlineToken(lang, code) == [type |-> "CodeInline", lang |-> lang, code |-> code]
BlockQuoteToken(indent) == [type |-> "BlockQuote", indent |-> indent]
ImageToken(alt, src) == [type |-> "Image", alt |-> alt, src |-> src]
LinkToken(text, href) == [type |-> "Link", text |-> text, href |-> href]
HorizontalRuleToken == [type |-> "HorizontalRule"]
NewLineToken == [type |-> "NewLine"]

LIST_INDENT_SIZE == 2

\* the state of a Lexer: md, tks and the exception raised, if any
LexState(m, t, e) == [md |-> m, tks |-> t, err |-> e]

\* the result of a try_tokenize_* recognizer: its return value and the Lexer
Tried(ok, m, t, e) == [ok |-> ok, md |-> m, tks |-> t, err |-> e]

------------------------------------------------------------------------------
(* Lexer.tokenize_current_line: the inline scan of one line *)

\* re.match(r"\A(c{k}[^c]+?c{k})", line): the length of the match, 0 if none
EmphasisLen(line, c, k) ==
  LET close == IndexFrom(line, c, k)
  IN  IF RunLen(line, c, 0) >= k /\ close > k /\ RunLen(line, c, close) >= k
      THEN close + k
      ELSE 0

\* the first of two alternatives that matches
FirstPositive(a, b) == IF a > 0 THEN a ELSE b

\* the match of either alternative, '*' first
EmphasisMatch(line, k) ==
  FirstPositive(EmphasisLen(line, "*", k), EmphasisLen(line, "_", k))

\* str(match.group(1)).replace('*', '').replace('_', '')
EmphasisText(line, n) == Remove(Remove(Take(line, n), "*"), "_")

\* re.match(r"\A\[(.*)\]\((.*)\)", line) for the text after an optional '!':
\* greedy groups that stay on the line.  from is the index of '['.
BracketEnds(line, from) ==
  LET eol == IndexFrom(line, NL, 0)
      closes == {e2 \in (from + 3)..(eol - 1) : Ch(line, e2) = ")"}
      mids == {e1 \in (from + 1)..(eol - 3) :
                 /\ Ch(line, e1) = "]"
                 /\ Ch(line, e1 + 1) = "("
                 /\ \E e2 \in closes : e2 >= e1 + 2}
  IN  IF from < Len(line) /\ Ch(line, from) = "[" /\ mids # {}
      THEN LET e1 == CHOOSE e \in mids : \A o \in mids : o <= e
               e2 == CHOOSE e \in closes : \A o \in closes : o <= e
           IN  [ok |-> TRUE, g1 |-> Slice(line, from + 1, e1),
                g2 |-> Slice(line, e1 + 2, e2)]
      ELSE [ok |-> FALSE, g1 |-> << >>, g2 |-> << >>]

NoBracket == [ok |-> FALSE, g1 |-> << >>, g2 |-> << >>]

ImageMatch(line) ==
  IF line # << >> /\ Ch(line, 0) = "!" THEN BracketEnds(line, 1) ELSE NoBracket

LinkMatch(line) == BracketEnds(line, 0)

\* re.match(r"\A`(.+?)`([a-z]*)", line)
RECURSIVE LowerRun(_, _)
LowerRun(line, lo) ==
  IF lo < Len(line) /\ Ch(line, lo) \in Lower THEN 1 + LowerRun(line, lo + 1) ELSE 0

CodeMatch(line) ==
  LET eol == IndexFrom(line, NL, 0)
      close == IndexFrom(line, Backtick, 2)
  IN  IF line # << >> /\ Ch(line, 0) = Backtick /\ close < eol
      THEN [ok |-> TRUE, code |-> Slice(line, 1, close),
            lang |-> Slice(line, close + 1, close + 1 + LowerRun(line, close + 1))]
      ELSE [ok |-> FALSE, code |-> << >>, lang |-> << >>]

\* curr_push(), guarded by "if curr_str"
Flush(t, curr_str) ==
  IF curr_str # << >> THEN Append(t, TextToken(curr_str, FALSE, FALSE)) ELSE t

\* what one inline pattern found at the front of the line: the number of
\* characters the code drops for it (0 when it does not match) and its token
EmphasisFound(line, n, bold, italic) ==
  [len |-> n, token |-> TextToken(EmphasisText(line, n), bold, italic)]

ImageFound(m) ==
  [len |-> IF m.ok THEN Len(m.g1) + Len(m.g2) + 5 ELSE 0,
   token |-> ImageToken(m.g1, m.g2)]

LinkFound(m) ==
  [len |-> IF m.ok THEN Len(m.g1) + Len(m.g2) + 4 ELSE 0,
   token |-> LinkToken(m.g1, m.g2)]

CodeFound(m) ==
  [len |-> IF m.ok THEN Len(m.code) + Len(m.lang) + 2 ELSE 0,
   token |-> CodeInlineToken(m.lang, m.code)]

FirstFound(a, b) == IF a.len > 0 THEN a ELSE b

\* the patterns of lines 241-291 in the order they are tried
InlineMatch(line) ==
  FirstFound(EmphasisFound(line, EmphasisMatch(line, 3), TRUE, TRUE),
  FirstFound(EmphasisFound(line, EmphasisMatch(line, 2), TRUE, FALSE),
  FirstFound(EmphasisFound(line, EmphasisMatch(line, 1), FALSE, TRUE),
  FirstFound(ImageFound(ImageMatch(line)),
  FirstFound(LinkFound(LinkMatch(line)),
             CodeFound(CodeMatch(line)))))))

\* the "while line" loop of tokenize_current_line; returns the tokens
RECURSIVE ScanLine(_, _, _)

\* one pass of the loop, found being the inline pattern at the front of line
ScanPass(line, curr_str, t, found) ==
  IF found.len > 0
  THEN ScanLine(Drop(line, found.len), << >>, Append(Flush(t, curr_str), found.token))
  ELSE IF Ch(line, 0) = NL THEN Append(Flush(t, curr_str), NewLineToken)
  ELSE ScanLine(Drop(line, 1), Append(curr_str, Ch(line, 0)), t)

ScanLine(line, curr_str, t) ==
  IF line = << >> THEN Flush(t, curr_str)
  ELSE ScanPass(line, curr_str, t, InlineMatch(line))

\* self.md = self.md[1] on the "already at end of line" path (line 219): the
\* one character after the newline, IndexError when there is none
MdAfterNewLine(m) ==
  IF Len(m) < 2 THEN [err |-> "IndexError", md |-> m]
  ELSE [err |-> "", md |-> <<Ch(m, 1)>>]

\* lines 222-231: the current line, its newline included
CurrentLine(m) == Take(m, IndexFrom(m, NL, 1) + 1)

\* lines 217-220
AtEndOfLine(t, after) == LexState(after.md, Append(t, NewLineToken), after.err)

tokenize_current_line(m, t) ==
  IF m = << >> THEN LexState(m, t, "")
  ELSE IF Ch(m, 0) = NL THEN AtEndOfLine(t, MdAfterNewLine(m))
  ELSE LexState(Drop(m, Len(CurrentLine(m))), ScanLine(CurrentLine(m), << >>, t), "")

del_current_line(m) ==
  IF m = << >> THEN [err |-> "IndexError", md |-> m]
  ELSE LET pointer == IndexFrom(m, NL, 1)
       IN  [err |-> "", md |-> Drop(m, pointer + 1)]

------------------------------------------------------------------------------
(* Lexer: the block recognizers.  Each takes self.md and self.tks and      *)
(* gives its return value with the md and tks it leaves.                   *)

\* re.match(r"\A(######|#####|####|###|##|#) ", md): the header size, 0 if none
HeaderMatch(m) ==
  LET hashes == RunLen(m, "#", 0)
  IN  IF hashes >= 1 /\ hashes <= 6 /\ hashes < Len(m) /\ Ch(m, hashes) = " "
      THEN hashes ELSE 0

\* a recognizer that returns True after the line scan left the Lexer as line
Matched(line) == Tried(TRUE, line.md, line.tks, line.err)

\* lines 100-101 and 200-201, not reached when the line scan raised
WithRule(line) ==
  IF line.err # "" THEN Matched(line)
  ELSE Tried(TRUE, line.md, line.tks \o <<HorizontalRuleToken, NewLineToken>>, "")

\* lines 96-103
HeaderLine(m, t, hsize) ==
  WithRule(tokenize_current_line(Drop(m, hsize + 1), Append(t, HeaderToken(hsize))))

try_tokenize_header(m, t) ==
  IF HeaderMatch(m) = 0 THEN Tried(FALSE, m, t, "")
  ELSE HeaderLine(m, t, HeaderMatch(m))

\* re.match(r"\A```(.*?)\s*\n", md)
Fence == <<Backtick, Backtick, Backtick>>
CodeBlockMatch(m) == StartsWith(m, Fence) /\ IndexFrom(m, NL, 0) < Len(m)

\* match.group(1): the lazy group stops where only white space is left
\* before the newline
RECURSIVE RStrip(_)
RStrip(s) ==
  IF s # << >> /\ IsSpace(s[Len(s)]) THEN RStrip(Take(s, Len(s) - 1)) ELSE s

CodeBlockLang(m) == RStrip(Slice(m, 3, IndexFrom(m, NL, 0)))

\* the test that ends the code_end loop (line 122)
IsClosingFence(m, code_end) ==
  /\ Ch(m, code_end) = Backtick
  /\ Ch(m, code_end + 1) = Backtick
  /\ Ch(m, code_end + 2) # ""

\* the code_end loop (lines 118-125): the index where it breaks, before the
\* "code_end -= 2", or -1 when it returns False
RECURSIVE FindCodeEnd(_, _)
FindCodeEnd(m, code_end) ==
  IF code_end + 2 >= Len(m) THEN -1
  ELSE IF IsClosingFence(m, code_end) THEN code_end
  ELSE FindCodeEnd(m, code_end + 1)

\* self.md[code_end + 4:] after "code_end -= 2" (line 132)
MdAfterCodeBlock(m, code_end) == Drop(m, code_end + 4)

\* lines 131-136, found being the index where the code_end loop broke
CodeBlockFound(m, t, code_start, found) ==
  Tried(TRUE, MdAfterCodeBlock(m, found - 2),
        t \o <<CodeBlockToken(CodeBlockLang(m), Slice(m, code_start, found - 2 + 1)),
               NewLineToken>>, "")

\* lines 109-136, code_start being the index after the first newline
CodeBlockFrom(m, t, code_start, found) ==
  IF code_start > Len(m) THEN Tried(FALSE, m, t, "")
  ELSE IF found = -1 THEN Tried(FALSE, m, t, "")
  ELSE CodeBlockFound(m, t, code_start, found)

try_tokenize_code_block(m, t) ==
  IF ~CodeBlockMatch(m) THEN Tried(FALSE, m, t, "")
  ELSE CodeBlockFrom(m, t, IndexFrom(m, NL, 1) + 1,
                     FindCodeEnd(m, IndexFrom(m, NL, 1) + 1))

\* re.match(r"\A(>(?: >)* ?)", md): the length of group 1, 0 if none
RECURSIVE QuoteRepeat(_, _)
QuoteRepeat(m, at) ==
  IF at + 1 < Len(m) /\ Ch(m, at) = " " /\ Ch(m, at + 1) = ">"
  THEN QuoteRepeat(m, at + 2) ELSE at

BlockQuoteMatch(m) ==
  IF m # << >> /\ Ch(m, 0) = ">"
  THEN LET at == QuoteRepeat(m, 1)
       IN  IF at < Len(m) /\ Ch(m, at) = " " THEN at + 1 ELSE at
  ELSE 0

\* lines 142-150, n being the length of the marker
BlockQuoteLine(m, t, n) ==
  Matched(tokenize_current_line(Drop(m, n),
            Append(t, BlockQuoteToken(Count(Take(m, n), ">")))))

try_tokenize_block_quote(m, t) ==
  IF BlockQuoteMatch(m) = 0 THEN Tried(FALSE, m, t, "")
  ELSE BlockQuoteLine(m, t, BlockQuoteMatch(m))

\* re.match(r"\A(\*{3,}[\* ]*|-{3,}[- ]*)$", md) without re.MULTILINE: '$' is
\* the end of the string, or the place before a newline that ends the string.
\* The length of group 1, 0 if none.
RECURSIVE RuleRun(_, _, _)
RuleRun(m, c, at) ==
  IF at < Len(m) /\ Ch(m, at) \in {c, " "} THEN RuleRun(m, c, at + 1) ELSE at

AtDollar(m, at) == at = Len(m) \/ (at = Len(m) - 1 /\ Ch(m, at) = NL)

RuleLen(m, c) ==
  IF RunLen(m, c, 0) >= 3 /\ AtDollar(m, RuleRun(m, c, 0)) THEN RuleRun(m, c, 0) ELSE 0

HorizontalRuleMatch(m) == IF RuleLen(m, "*") > 0 THEN RuleLen(m, "*") ELSE RuleLen(m, "-")

\* lines 156-160, n being the length of group 1
RuleFound(m, t, n) ==
  Tried(TRUE, Drop(m, n + 1), t \o <<HorizontalRuleToken, NewLineToken>>, "")

try_tokenize_horizontal_rule(m, t) ==
  IF HorizontalRuleMatch(m) = 0 THEN Tried(FALSE, m, t, "")
  ELSE RuleFound(m, t, HorizontalRuleMatch(m))

\* re.match(r"\A *(?:([0-9]\.)|(\*|-)) ", md)
ListMatch(m) ==
  LET spaces == RunLen(m, " ", 0)
  IN  \/ /\ spaces + 2 < Len(m)
         /\ IsDigit(Ch(m, spaces))
         /\ Ch(m, spaces + 1) = "."
         /\ Ch(m, spaces + 2) = " "
      \/ /\ spaces + 1 < Len(m)
         /\ Ch(m, spaces) \in {"*", "-"}
         /\ Ch(m, spaces + 1) = " "

\* lines 166-180, spaces being the number of leading spaces
ListLine(m, t, spaces, unordered) ==
  Matched(tokenize_current_line(
    Drop(m, spaces + (IF unordered THEN 2 ELSE 3)),
    Append(t, IF unordered
              THEN ListItemToken(spaces \div LIST_INDENT_SIZE, FALSE, -1)
              ELSE ListItemToken(spaces \div LIST_INDENT_SIZE, TRUE,
                                 DigitVal(Ch(m, spaces))))))

try_tokenize_list(m, t) ==
  IF ~ListMatch(m) THEN Tried(FALSE, m, t, "")
  ELSE ListLine(m, t, RunLen(m, " ", 0), Ch(m, RunLen(m, " ", 0)) \in {"*", "-"})

\* re.match(r"\A.+\n(=+|-+) *", md)
HeaderAltMatch(m) ==
  LET eol == IndexFrom(m, NL, 0)
  IN  eol >= 1 /\ eol + 1 < Len(m) /\ Ch(m, eol + 1) \in {"=", "-"}

\* lines 199-201: the underline line is deleted, rest being what
\* del_current_line leaves
UnderlineDeleted(line, rest) ==
  IF rest.err # "" THEN Tried(TRUE, rest.md, line.tks, rest.err)
  ELSE WithRule(LexState(rest.md, line.tks, ""))

\* lines 198-203
HeaderAltLine(line) ==
  IF line.err # "" THEN Matched(line)
  ELSE UnderlineDeleted(line, del_current_line(line.md))

\* lines 187-203, hsize_ch being the first character of the next line
HeaderAltSize(m, t, hsize_ch) ==
  IF hsize_ch = "=" THEN HeaderAltLine(tokenize_current_line(m, Append(t, HeaderToken(1))))
  ELSE IF hsize_ch = "-"
  THEN HeaderAltLine(tokenize_current_line(m, Append(t, HeaderToken(2))))
  ELSE Tried(TRUE, m, t, "RuntimeError")

try_tokenize_header_alt(m, t) ==
  IF ~HeaderAltMatch(m) THEN Tried(FALSE, m, t, "")
  ELSE HeaderAltSize(m, t, Ch(m, IndexFrom(m, NL, 0) + 1))

\* re.match(r"\A\n", md)
try_tokenize_new_line(m, t) ==
  IF m # << >> /\ Ch(m, 0) = NL
  THEN Tried(TRUE, Drop(m, 1), Append(t, NewLineToken), "")
  ELSE Tried(FALSE, m, t, "")

\* lines 78-85: the recognizers in the order the loop of tokenize tries them;
\* the pass is made by the first that returns True, else by the line scan
Pass(by, r) == [by |-> by, r |-> r]

OrElse(pass, next) == IF pass.r.ok THEN pass ELSE next

tokenize_pass(m, t) ==
  OrElse(Pass("try_tokenize_header", try_tokenize_header(m, t)),
  OrElse(Pass("try_tokenize_code_block", try_tokenize_code_block(m, t)),
  OrElse(Pass("try_tokenize_block_quote", try_tokenize_block_quote(m, t)),
  OrElse(Pass("try_tokenize_horizontal_rule", try_tokenize_horizontal_rule(m, t)),
  OrElse(Pass("try_tokenize_list", try_tokenize_list(m, t)),
  OrElse(Pass("try_tokenize_header_alt", try_tokenize_header_alt(m, t)),
  OrElse(Pass("try_tokenize_new_line", try_tokenize_new_line(m, t)),
         Pass("tokenize_current_line", tokenize_current_line(m, t)))))))))

\* tokenize without lines 87-88
FinishTokens_NoAppend(t) == t

\* lines 87-88 of tokenize: the terminating NewLine
FinishTokens(t) ==
  IF t # << >> /\ t[Len(t)].type # "NewLine" THEN Append(t, NewLineToken) ELSE t

------------------------------------------------------------------------------
(* Parser: AST nodes *)

ASTHeaderNode(size, children) == [type |-> "Header", size |-> size, children |-> children]
ASTCodeBlockNode(lang, code) == [type |-> "CodeBlock", lang |-> lang, code |-> code]
ASTCodeInlineNode(lang, code) == [type |-> "CodeInline", lang |-> lang, code |-> code]
ASTQuoteNode(children) == [type |-> "Quote", children |-> children]
ASTQuoteItemNode(children) == [type |-> "QuoteItem", children |-> children]
ASTParagraphNode(children) == [type |-> "Paragraph", children |-> children]
ASTTextNode(text, bold, italic) ==
  [type |-> "Text", text |-> text, bold |-> bold, italic |-> italic]
ASTHorizontalRuleNode == [type |-> "HorizontalRule"]
ASTImageNode(alt, src) == [type |-> "Image", alt |-> alt, src |-> src]
ASTLinkNode(text, href) == [type |-> "Link", text |-> text, href |-> href]
ASTListNode(ordered, children) == [type |-> "List", ordered |-> ordered, children |-> children]
ASTListItemNode(children) == [type |-> "ListItem", children |-> children]

\* a reference to the k-th Quote or List node a block parser has created: the
\* parser keeps such nodes in dictionaries and stacks and mutates them after
\* they are attached to their parent
NodeRef(k) == [type |-> "Ref", id |-> k]

------------------------------------------------------------------------------
(* Parser: peek, consume and the inline parsers.  t is self.tks, start is  *)
(* self.tks_start; a result has ok = FALSE when RuntimeError was raised.   *)

peek(t, start, depth, tokenType) ==
  LET index == start + depth - 1
  IN  IF index >= Len(t) THEN FALSE ELSE Ch(t, index).type = tokenType

peek_any(t, start, depth, tokenTypes) ==
  \E tokenType \in tokenTypes : peek(t, start, depth, tokenType)

INLINE_TOKENS == {"Text", "CodeInline", "Link"}

\* consume without the isinstance check of line 568
consume_Unchecked(t, start, tokenType) ==
  IF start = Len(t) THEN [ok |-> FALSE, start |-> start, token |-> NewLineToken]
  ELSE [ok |-> TRUE, start |-> start + 1, token |-> Ch(t, start)]

consume(t, start, tokenType) ==
  IF start = Len(t) THEN [ok |-> FALSE, start |-> start, token |-> NewLineToken]
  ELSE [ok |-> Ch(t, start).type = tokenType, start |-> start + 1, token |-> Ch(t, start)]

parse_inline_single(t, start) ==
  IF peek(t, start, 1, "Text") THEN
    LET tk == consume(t, start, "Text")
    IN  [ok |-> tk.ok, start |-> tk.start,
         node |-> ASTTextNode(tk.token.text, tk.token.bold, tk.token.italic)]
  ELSE IF peek(t, start, 1, "CodeInline") THEN
    LET tk == consume(t, start, "CodeInline")
    IN  [ok |-> tk.ok, start |-> tk.start,
         node |-> ASTCodeInlineNode(tk.token.lang, tk.token.code)]
  ELSE IF peek(t, start, 1, "Link") THEN
    LET tk == consume(t, start, "Link")
    IN  [ok |-> tk.ok, start |-> tk.start,
         node |-> ASTLinkNode(tk.token.text, tk.token.href)]
  ELSE [ok |-> FALSE, start |-> start, node |-> ASTHorizontalRuleNode]

RECURSIVE parse_inline_loop(_, _, _)
parse_inline_loop(t, start, nodes) ==
  IF \/ peek_any(t, start, 1, INLINE_TOKENS)
     \/ (peek(t, start, 1, "NewLine") /\ peek_any(t, start, 2, INLINE_TOKENS))
  THEN
    LET brk == peek(t, start, 1, "NewLine")
        nl == consume(t, start, "NewLine")
        at == IF brk THEN nl.start ELSE start
        pre == IF brk THEN Append(nodes, ASTTextNode(<< >>, FALSE, FALSE)) ELSE nodes
        single == parse_inline_single(t, at)
    IN  IF ~single.ok THEN [ok |-> FALSE, start |-> single.start, nodes |-> pre]
        ELSE parse_inline_loop(t, single.start, Append(pre, single.node))
  ELSE
    LET nl == consume(t, start, "NewLine")
    IN  [ok |-> nl.ok, start |-> nl.start, nodes |-> nodes]

parse_inline(t, start) == parse_inline_loop(t, start, << >>)

RECURSIVE parse_inline_block_quote_loop(_, _, _)
parse_inline_block_quote_loop(t, start, nodes) ==
  IF \/ peek_any(t, start, 1, INLINE_TOKENS)
     \/ /\ peek(t, start, 1, "NewLine")
        /\ peek(t, start, 2, "BlockQuote")
        /\ peek_any(t, start, 3, INLINE_TOKENS)
  THEN
    LET brk == peek(t, start, 1, "NewLine")
        nl == consume(t, start, "NewLine")
        bq == consume(t, nl.start, "BlockQuote")
        at == IF brk THEN bq.start ELSE start
        pre == IF brk THEN Append(nodes, ASTTextNode(<< >>, TRUE, TRUE)) ELSE nodes
        single == parse_inline_single(t, at)
    IN  IF brk /\ ~(nl.ok /\ bq.ok) THEN [ok |-> FALSE, start |-> at, nodes |-> nodes]
        ELSE IF ~single.ok THEN [ok |-> FALSE, start |-> single.start, nodes |-> pre]
        ELSE parse_inline_block_quote_loop(t, single.start, Append(pre, single.node))
  ELSE
    LET nl == consume(t, start, "NewLine")
    IN  [ok |-> nl.ok, start |-> nl.start, nodes |-> nodes]

parse_inline_block_quote(t, start) == parse_inline_block_quote_loop(t, start, << >>)

\* the result of a block parser: the node it returns and the cursor it leaves
Parsed(ok, start, node) == [ok |-> ok, start |-> start, node |-> node]

parse_header(t, start) ==
  LET token == consume(t, start, "Header")
      inl == parse_inline(t, token.start)
  IN  IF ~token.ok THEN Parsed(FALSE, token.start, ASTHorizontalRuleNode)
      ELSE Parsed(inl.ok, inl.start, ASTHeaderNode(token.token.size, inl.nodes))

parse_code_block(t, start) ==
  LET token == consume(t, start, "CodeBlock")
      nl == consume(t, token.start, "NewLine")
  IN  IF ~token.ok THEN Parsed(FALSE, token.start, ASTHorizontalRuleNode)
      ELSE Parsed(nl.ok, nl.start, ASTCodeBlockNode(token.token.lang, token.token.code))

parse_horizontal_rule(t, start) ==
  LET token == consume(t, start, "HorizontalRule")
      nl == consume(t, token.start, "NewLine")
  IN  IF ~token.ok THEN Parsed(FALSE, token.start, ASTHorizontalRuleNode)
      ELSE Parsed(nl.ok, nl.start, ASTHorizontalRuleNode)

parse_image(t, start) ==
  LET token == consume(t, start, "Image")
      nl == consume(t, token.start, "NewLine")
  IN  IF ~token.ok THEN Parsed(FALSE, token.start, ASTHorizontalRuleNode)
      ELSE Parsed(nl.ok, nl.start, ASTImageNode(token.token.alt, token.token.src))

parse_paragraph(t, start) ==
  LET inl == parse_inline(t, start)
  IN  Parsed(inl.ok, inl.start, ASTParagraphNode(inl.nodes))

parse_quote_item(t, start) ==
  LET inl == parse_inline_block_quote(t, start)
  IN  Parsed(inl.ok, inl.start, ASTQuoteItemNode(inl.nodes))

------------------------------------------------------------------------------
(* Parser.parse_block_quote.  quotes[k] is the children list of the k-th   *)
(* ASTQuoteNode created (quotes[1] is root_node); node_indent_map is a set *)
(* of <<indent, k>> pairs.                                                 *)

\* node_indent_map.get(indent), 0 for None
MapGet(node_indent_map, indent) ==
  IF \E e \in node_indent_map : e[1] = indent
  THEN (CHOOSE e \in node_indent_map : e[1] = indent)[2]
  ELSE 0

\* the tree below the k-th node of a table of children lists
RECURSIVE ResolveQuote(_, _)
ResolveQuote(quotes, k) ==
  ASTQuoteNode([i \in 1..Len(quotes[k]) |->
    IF quotes[k][i].type = "Ref" THEN ResolveQuote(quotes, quotes[k][i].id)
    ELSE quotes[k][i]])

\* the branch of lines 442-446: a new Quote node, registered at the token's
\* indent and attached to the node registered at indent - 1, or to root_node
AttachNewQuote(quotes, node_indent_map, indent, item) ==
  LET k == Len(quotes) + 1
      registered == node_indent_map \cup {<<indent, k>>}
      parent == IF MapGet(registered, indent - 1) = 0 THEN 1
                ELSE MapGet(registered, indent - 1)
  IN  [quotes |-> [Append(quotes, <<item>>) EXCEPT ![parent] = Append(@, NodeRef(k))],
       node_indent_map |-> registered]

RECURSIVE parse_block_quote_loop(_, _, _, _)
parse_block_quote_loop(t, start, quotes, node_indent_map) ==
  IF peek(t, start, 1, "BlockQuote") THEN
    LET token == consume(t, start, "BlockQuote")
        node == MapGet(node_indent_map, token.token.indent)
        item == parse_quote_item(t, token.start)
        new == AttachNewQuote(quotes, node_indent_map, token.token.indent, item.node)
    IN  IF peek(t, token.start, 1, "NewLine")
        THEN parse_block_quote_loop(t, consume(t, token.start, "NewLine").start,
                                    quotes, node_indent_map)
        ELSE IF ~item.ok THEN [ok |-> FALSE, start |-> item.start, quotes |-> quotes]
        ELSE IF node # 0
        THEN parse_block_quote_loop(t, item.start,
               [quotes EXCEPT ![node] = Append(@, item.node)], node_indent_map)
        ELSE parse_block_quote_loop(t, item.start, new.quotes, new.node_indent_map)
  ELSE [ok |-> TRUE, start |-> start, quotes |-> quotes]

parse_block_quote(t, start) ==
  LET token == consume(t, start, "BlockQuote")
      item == parse_quote_item(t, token.start)
      loop == parse_block_quote_loop(t, item.start, <<<<item.node>>>>,
                                     {<<token.token.indent, 1>>})
  IN  IF ~token.ok THEN Parsed(FALSE, token.start, ASTHorizontalRuleNode)
      ELSE IF ~item.ok THEN Parsed(FALSE, item.start, ASTHorizontalRuleNode)
      ELSE IF ~loop.ok THEN Parsed(FALSE, loop.start, ASTHorizontalRuleNode)
      ELSE Parsed(TRUE, loop.start, ResolveQuote(loop.quotes, 1))

------------------------------------------------------------------------------
(* Parser.parse_list.  lists[k] is the k-th ASTListNode created (lists[1]  *)
(* is root): its ordered flag and, per ListItem, the item's children;      *)
(* list_stack holds ListStackItems whose node is an index into lists.      *)

ListStackItem(node, indent) == [node |-> node, indent |-> indent]

Min(a, b) == IF a <= b THEN a ELSE b

RECURSIVE ResolveList(_, _)
ResolveList(lists, k) ==
  ASTListNode(lists[k].ordered,
    [i \in 1..Len(lists[k].children) |->
      ASTListItemNode([j \in 1..Len(lists[k].children[i]) |->
        IF lists[k].children[i][j].type = "Ref"
        THEN ResolveList(lists, lists[k].children[i][j].id)
        ELSE lists[k].children[i][j]])])

\* lines 485-486: pop from the stack until the current level is on top
RECURSIVE PopTo(_, _)
PopTo(list_stack, curr_indent) ==
  IF list_stack[Len(list_stack)].indent > curr_indent
  THEN PopTo(Take(list_stack, Len(list_stack) - 1), curr_indent)
  ELSE list_stack

\* list_stack[-1].node.children.append(ASTListItemNode(children))
AppendItem(lists, k, children) ==
  [lists EXCEPT ![k].children = Append(@, children)]

\* lines 471-482: a new List node appended to the last ListItem of the top node
AttachNewList(lists, top, ordered, children) ==
  LET k == Len(lists) + 1
      last == Len(lists[top].children)
  IN  [Append(lists, [ordered |-> ordered, children |-> <<children>>])
         EXCEPT ![top].children[last] = Append(@, NodeRef(k))]

\* line 467 with the indent the token would give in place of curr_indent
ClampIndent_Unclamped(top_indent, token_indent) == token_indent

\* line 467: only one additional level at a time
ClampIndent(top_indent, token_indent) == Min(top_indent + 1, token_indent)

RECURSIVE parse_list_loop(_, _, _, _)
parse_list_loop(t, start, lists, list_stack) ==
  IF peek(t, start, 1, "ListItem") THEN
    LET curr_token == consume(t, start, "ListItem")
        top == list_stack[Len(list_stack)]
        curr_indent == ClampIndent(top.indent, curr_token.token.indent)
        last_indent == top.indent
        inl == parse_inline(t, curr_token.start)
        popped == PopTo(list_stack, curr_indent)
    IN  IF ~inl.ok
        THEN [ok |-> FALSE, start |-> inl.start, lists |-> lists,
              list_stack |-> list_stack]
        ELSE IF curr_indent > last_indent
        THEN parse_list_loop(t, inl.start,
               AttachNewList(lists, top.node, curr_token.token.ordered, inl.nodes),
               Append(list_stack, ListStackItem(Len(lists) + 1, curr_indent)))
        ELSE IF curr_indent < last_indent
        THEN parse_list_loop(t, inl.start,
               AppendItem(lists, popped[Len(popped)].node, inl.nodes), popped)
        ELSE parse_list_loop(t, inl.start,
               AppendItem(lists, top.node, inl.nodes), list_stack)
  ELSE [ok |-> TRUE, start |-> start, lists |-> lists, list_stack |-> list_stack]

\* lines 459-491, token being the first ListItem token and inl its content:
\* root with its first item, alone on the stack at indent 0, then the loop
parse_list_from(t, token, inl) ==
  parse_list_loop(t, inl.start,
    <<[ordered |-> token.token.ordered, children |-> <<inl.nodes>>]>>,
    <<ListStackItem(1, 0)>>)

parse_list(t, start) ==
  LET token == consume(t, start, "ListItem")
      inl == parse_inline(t, token.start)
      loop == parse_list_from(t, token, inl)
  IN  IF ~token.ok THEN Parsed(FALSE, token.start, ASTHorizontalRuleNode)
      ELSE IF ~inl.ok THEN Parsed(FALSE, inl.start, ASTHorizontalRuleNode)
      ELSE IF ~loop.ok THEN Parsed(FALSE, loop.start, ASTHorizontalRuleNode)
      ELSE Parsed(TRUE, loop.start, ResolveList(loop.lists, 1))

------------------------------------------------------------------------------
(* CodeGen.  A generator gives the string it returns, or the exception it  *)
(* raises.                                                                 *)

Html(h) == [err |-> "", html |-> h]
Raise(e) == [err |-> e, html |-> << >>]

\* ''.join of two generated parts, the first being generated first
Cat(a, b) == IF a.err # "" THEN a ELSE IF b.err # "" THEN b ELSE Html(a.html \o b.html)

ESCAPE_HTML_MAP ==
  [c \in {"<", ">", "&", "\""} |->
     CASE c = "<" -> <<"&", "l", "t", ";">>
       [] c = ">" -> <<"&", "g", "t", ";">>
       [] c = "&" -> <<"&", "a", "m", "p", ";">>
       [] c = "\"" -> <<"&", "q", "u", "o", "t", ";">>]

\* line 702: new_html = [string[:i + 1]], the copy made at the first replacement
FirstCopy(string, i) == Take(string, i + 1)

\* the loop of escape_html; is_none is "new_html is None"
RECURSIVE escape_html_loop(_, _, _, _)
escape_html_loop(string, i, new_html, is_none) ==
  IF i >= Len(string) THEN (IF is_none THEN string ELSE new_html)
  ELSE IF Ch(string, i) \in DOMAIN ESCAPE_HTML_MAP
  THEN escape_html_loop(string, i + 1,
         (IF is_none THEN FirstCopy(string, i) ELSE new_html)
           \o ESCAPE_HTML_MAP[Ch(string, i)], FALSE)
  ELSE escape_html_loop(string, i + 1,
         IF is_none THEN new_html ELSE Append(new_html, Ch(string, i)), is_none)

escape_html(string) == escape_html_loop(string, 0, << >>, TRUE)

\* str(n) of an f-string
RECURSIVE IntStr(_)
IntStr(n) ==
  IF n < 0 THEN <<"-">> \o IntStr(0 - n)
  ELSE IF n < 10 THEN <<Digits[n + 1]>>
  ELSE IntStr(n \div 10) \o <<Digits[(n % 10) + 1]>>

gen_text(node) ==
  (IF node.italic THEN <<"<", "i", ">">> ELSE << >>)
    \o (IF node.bold THEN <<"<", "b", ">">> ELSE << >>)
    \o escape_html(node.text)
    \o (IF node.bold THEN <<"<", "/", "b", ">">> ELSE << >>)
    \o (IF node.italic THEN <<"<", "/", "i", ">">> ELSE << >>)

gen_link(node) ==
  <<"<", "a", " ", "h", "r", "e", "f", "=", "\"">> \o escape_html(node.href) \o <<"\"", ">">> \o escape_html(node.text) \o <<"<", "/", "a", ">">>

gen_code_inline(node) ==
  <<"<", "c", "o", "d", "e", " ", "c", "l", "a", "s", "s", "\"">> \o escape_html(node.lang) \o <<"\"", ">">> \o node.code \o <<"<", "/", "c", "o", "d", "e", ">">>

RECURSIVE gen_line(_)
gen_line(nodes) ==
  IF nodes = << >> THEN Html(<< >>)
  ELSE LET node == Head(nodes)
       IN  IF node.type = "Link" THEN Cat(Html(gen_link(node)), gen_line(Tail(nodes)))
           ELSE IF node.type = "CodeInline"
           THEN Cat(Html(gen_code_inline(node)), gen_line(Tail(nodes)))
           ELSE IF node.type = "Text"
           THEN Cat(Html(gen_text(node)), gen_line(Tail(nodes)))
           ELSE Raise("RuntimeError")

gen_header(node) ==
  Cat(Html(<<"<", "h">> \o IntStr(node.size) \o <<">">>),
      Cat(gen_line(node.children),
          Html(<<"<", "h">> \o IntStr(node.size) \o <<">">>)))

gen_code_block(node) ==
  Html(<<"<", "p", "r", "e", ">", "<", "c", "o", "d", "e", " ", "c", "l", "a", "s", "s", "=", "\"">> \o escape_html(node.lang) \o <<"\"", ">">> \o node.code \o <<"<", "/", "c", "o", "d", "e", ">", "<", "/", "p", "r", "e", ">">>)

\* the loop of gen_quote_block.  For a child that is an ASTQuoteNode the code
\* calls gen_quote_block(node) on the node it is generating, not on the child
\* (line 614): the call repeats itself without end and Python raises
\* RecursionError.
RECURSIVE gen_quote_children(_)
gen_quote_children(children) ==
  IF children = << >> THEN Html(<< >>)
  ELSE LET child == Head(children)
       IN  IF child.type = "Quote" THEN Raise("RecursionError")
           ELSE IF child.type = "QuoteItem"
           THEN Cat(Cat(Html(<<"<", "p", ">">>), Cat(gen_line(child.children), Html(<<"<", "/", "p", ">">>))),
                    gen_quote_children(Tail(children)))
           ELSE Raise("RuntimeError")

gen_quote_block(node) ==
  Cat(Html(<<"<", "b", "l", "o", "c", "k", "q", "u", "o", "t", "e", ">">>), Cat(gen_quote_children(node.children), Html(<<"<", "/", "b", "l", "o", "c", "k", "q", "u", "o", "t", "e", ">">>)))

RECURSIVE gen_list(_)
RECURSIVE gen_list_children(_)
RECURSIVE gen_list_item(_)

gen_list_item(inner) ==
  IF inner = << >> THEN Html(<< >>)
  ELSE Cat(IF Head(inner).type = "List" THEN gen_list(Head(inner))
           ELSE gen_line(<<Head(inner)>>),
           gen_list_item(Tail(inner)))

gen_list_children(children) ==
  IF children = << >> THEN Html(<< >>)
  ELSE LET child == Head(children)
       IN  IF child.type # "ListItem" THEN Raise("RuntimeError")
           ELSE Cat(Cat(Html(<<"<", "l", "i", ">">>), Cat(gen_list_item(child.children), Html(<<"<", "/", "l", "i", ">">>))),
                    gen_list_children(Tail(children)))

gen_list(node) ==
  Cat(Html(IF node.ordered THEN <<"<", "o", "l", ">">> ELSE <<"<", "u", "l", ">">>),
      Cat(gen_list_children(node.children),
          Html(IF node.ordered THEN <<"<", "/", "o", "l", ">">> ELSE <<"<", "/", "u", "l", ">">>)))

gen_horizontal_rule(node) == Html(<<"<", "h", "r", ">">>)

gen_image(node) ==
  Html(<<"<", "i", "m", "g", " ", "a", "l", "t", "=", "\"">> \o escape_html(node.alt) \o <<"\"", " ", "s", "r", "c", "=", "\"">> \o escape_html(node.src) \o <<"\"", "/", ">">>)

\* gen_paragraph with the closing tag left out
gen_paragraph_Unclosed(node) ==
  Cat(Html(<<"<", "p", ">">>), gen_line(node.children))

gen_paragraph(node) ==
  Cat(Html(<<"<", "p", ">">>), Cat(gen_line(node.children), Html(<<"<", "/", "p", ">">>)))

\* the dispatch of the loop of gen on one child of the root
gen_node(node) ==
  IF node.type = "Header" THEN gen_header(node)
  ELSE IF node.type = "CodeBlock" THEN gen_code_block(node)
  ELSE IF node.type = "Quote" THEN gen_quote_block(node)
  ELSE IF node.type = "List" THEN gen_list(node)
  ELSE IF node.type = "HorizontalRule" THEN gen_horizontal_rule(node)
  ELSE IF node.type = "Image" THEN gen_image(node)
  ELSE IF node.type = "Link" THEN Html(gen_link(node))
  ELSE IF node.type = "CodeInline" THEN Html(gen_code_inline(node))
  ELSE IF node.type = "Paragraph" THEN gen_paragraph(node)
  ELSE Raise("RuntimeError")

RECURSIVE gen(_)
gen(children) ==
  IF children = << >> THEN Html(<< >>)
  ELSE Cat(gen_node(Head(children)), gen(Tail(children)))

------------------------------------------------------------------------------
(* The inputs of the calls that are explored *)

\* the number of lines of a markdown text
MaxLines == 3
\* the length of a plain text
MaxTextLen == 3
\* the length of a token list handed to parse
MaxTks == 4
\* the length of a string handed to escape_html
MaxEscLen == 3

\* the lines markdown texts are made of: one per block and inline construct
LineSet ==
  {<<>>,
   <<"a">>,
   <<"#", " ", "a">>,
   <<"#", " ">>,
   <<Backtick, Backtick, Backtick>>,
   <<"a", Backtick, Backtick, "b">>,
   <<">", " ", "a">>,
   <<">", " ", ">", " ", "a">>,
   <<"-", "-", "-">>,
   <<"-", " ", "a">>,
   <<" ", " ", "-", " ", "a">>,
   <<"!", "[", "a", "]", "(", "b", ")">>}

\* '\n'.join(lines)
RECURSIVE Join(_)
Join(lines) ==
  IF Len(lines) = 1 THEN lines[1]
  ELSE lines[1] \o <<NL>> \o Join(Tail(lines))

MarkdownTexts == {Join(ls) : ls \in UNION {[1..k -> LineSet] : k \in 1..MaxLines}}

\* text without markup characters
PlainChars == {"a", "b", " "}
PlainTexts == UNION {[1..k -> PlainChars] : k \in 0..MaxTextLen}

\* n '#' characters
Hashes(n) == [i \in 1..n |-> "#"]

\* a plain text, alone (n = 0) or as the header line of size n, with or
\* without the newline that ends it
HeaderInput(n, t, nl) ==
  (IF n = 0 THEN << >> ELSE Hashes(n) \o <<" ">>) \o t \o (IF nl THEN <<NL>> ELSE << >>)

HeaderTexts == {HeaderInput(n, t, nl) : n \in 0..6, t \in PlainTexts, nl \in BOOLEAN}

TokenSet ==
  {HeaderToken(1), TextToken(<<"a">>, FALSE, FALSE), ListItemToken(0, FALSE, -1),
   CodeBlockToken(<< >>, <<"a">>), CodeInlineToken(<< >>, <<"a">>), BlockQuoteToken(1),
   ImageToken(<<"a">>, <<"b">>), LinkToken(<<"a">>, <<"b">>),
   HorizontalRuleToken, NewLineToken}

TokenLists == UNION {[1..k -> TokenSet] : k \in 0..MaxTks}

\* the tokens of at most MaxItems list-item lines of one Text token each,
\* their indents in 0..MaxIndent
MaxItems == 4
MaxIndent == 3

ListLineTokens(indent) ==
  <<ListItemToken(indent, FALSE, -1), TextToken(<<"a">>, FALSE, FALSE), NewLineToken>>

RECURSIVE ListLinesTokens(_)
ListLinesTokens(indents) ==
  IF indents = << >> THEN << >>
  ELSE ListLineTokens(Head(indents)) \o ListLinesTokens(Tail(indents))

ListTokenLists ==
  {ListLinesTokens(indents) : indents \in UNION {[1..n -> 0..MaxIndent] : n \in 1..MaxItems}}

\* the children of an ASTRootNode handed to gen: at most MaxGenNodes block
\* nodes of the kinds gen dispatches on, each well formed
MaxGenNodes == 2

GenText == ASTTextNode(<<"a">>, FALSE, FALSE)

GenQuoteItem == ASTQuoteItemNode(<<GenText>>)

GenListItem == ASTListItemNode(<<GenText>>)

GenNodes ==
  {ASTHeaderNode(1, <<GenText>>),
   ASTCodeBlockNode(<< >>, <<"a">>),
   ASTQuoteNode(<<GenQuoteItem>>),
   ASTQuoteNode(<<GenQuoteItem, ASTQuoteNode(<<GenQuoteItem>>)>>),
   ASTListNode(FALSE, <<GenListItem>>),
   ASTListNode(TRUE, <<ASTListItemNode(<<GenText, ASTListNode(FALSE, <<GenListItem>>)>>)>>),
   ASTHorizontalRuleNode,
   ASTImageNode(<<"a">>, <<"b">>),
   ASTLinkNode(<<"a">>, <<"b">>),
   ASTCodeInlineNode(<< >>, <<"a">>),
   ASTParagraphNode(<<GenText>>)}

GenTrees == UNION {[1..n -> GenNodes] : n \in 0..MaxGenNodes}

EscChars == {"<", ">", "&", "\"", "a"}
EscStrings == UNION {[1..k -> EscChars] : k \in 0..MaxEscLen}

------------------------------------------------------------------------------
(* The state machine: one call of compile, parse or escape_html *)

\* Parser.__init__, CodeGen.__init__: nothing parsed, nothing generated
Fresh ==
  /\ tks_start = 0
  /\ root = << >>
  /\ html = << >>
  /\ err = ""

\* Compiler().compile(md): Lexer(md), before tokenize
InitCompile ==
  /\ entry = "compile"
  /\ input \in MarkdownTexts \cup HeaderTexts
  /\ pc = "lex"
  /\ md = input
  /\ tks = << >>
  /\ Fresh

\* Compiler().parse(tks): Parser(tks), before parse
InitParse ==
  /\ entry = "parse"
  /\ input = << >>
  /\ pc = "parse"
  /\ md = << >>
  /\ tks \in TokenLists \cup ListTokenLists
  /\ Fresh

\* CodeGen.escape_html(string)
InitEscape ==
  /\ entry = "escape_html"
  /\ input \in EscStrings
  /\ pc = "escape"
  /\ md = << >>
  /\ tks = << >>
  /\ Fresh

\* Compiler().gen(ast): CodeGen(ast), before gen
InitGen ==
  /\ entry = "gen"
  /\ input = << >>
  /\ pc = "gen"
  /\ md = << >>
  /\ tks = << >>
  /\ tks_start = 0
  /\ root \in GenTrees
  /\ html = << >>
  /\ err = ""

Init == InitCompile \/ InitParse \/ InitEscape \/ InitGen

\* one pass of the loop of tokenize, which left the Lexer as r
LexStep(r) ==
  /\ md' = r.md
  /\ tks' = r.tks
  /\ err' = r.err
  /\ pc' = IF r.err # "" THEN "raised" ELSE "lex"
  /\ UNCHANGED <<entry, input, tks_start, root, html>>

\* the pass was made by recognizer by
PassBy(pass, by) == pass.by = by /\ LexStep(pass.r)

LexPass(by) == pc = "lex" /\ md # << >> /\ PassBy(tokenize_pass(md, tks), by)

TryTokenizeHeader == LexPass("try_tokenize_header")

TryTokenizeCodeBlock == LexPass("try_tokenize_code_block")

TryTokenizeBlockQuote == LexPass("try_tokenize_block_quote")

TryTokenizeHorizontalRule == LexPass("try_tokenize_horizontal_rule")

TryTokenizeList == LexPass("try_tokenize_list")

TryTokenizeHeaderAlt == LexPass("try_tokenize_header_alt")

TryTokenizeNewLine == LexPass("try_tokenize_new_line")

\* the fallback of line 85
TokenizeCurrentLine == LexPass("tokenize_current_line")

\* lines 87-90: tokenize returns and compile hands the tokens to Parser
TokenizeReturn ==
  /\ pc = "lex"
  /\ md = << >>
  /\ tks' = FinishTokens(tks)
  /\ pc' = "parse"
  /\ UNCHANGED <<entry, input, md, tks_start, root, html, err>>

\* one pass of the loop of parse in which block parser result r was appended
ParseStep(r) ==
  /\ tks_start' = r.start
  /\ root' = IF r.ok THEN Append(root, r.node) ELSE root
  /\ err' = IF r.ok THEN "" ELSE "RuntimeError"
  /\ pc' = IF r.ok THEN "parse" ELSE "raised"
  /\ UNCHANGED <<entry, input, md, tks, html>>

Parsing == pc = "parse" /\ tks_start < Len(tks)

ParseHeader ==
  /\ Parsing
  /\ peek(tks, tks_start, 1, "Header")
  /\ ParseStep(parse_header(tks, tks_start))

ParseCodeBlock ==
  /\ Parsing
  /\ peek(tks, tks_start, 1, "CodeBlock")
  /\ ParseStep(parse_code_block(tks, tks_start))

ParseBlockQuote ==
  /\ Parsing
  /\ peek(tks, tks_start, 1, "BlockQuote")
  /\ ParseStep(parse_block_quote(tks, tks_start))

ParseHorizontalRule ==
  /\ Parsing
  /\ peek(tks, tks_start, 1, "HorizontalRule")
  /\ ParseStep(parse_horizontal_rule(tks, tks_start))

ParseList ==
  /\ Parsing
  /\ peek(tks, tks_start, 1, "ListItem")
  /\ ParseStep(parse_list(tks, tks_start))

ParseImage ==
  /\ Parsing
  /\ peek(tks, tks_start, 1, "Image")
  /\ ParseStep(parse_image(tks, tks_start))

ParseParagraph ==
  /\ Parsing
  /\ peek_any(tks, tks_start, 1, INLINE_TOKENS)
  /\ ParseStep(parse_paragraph(tks, tks_start))

ParseNewLine ==
  /\ Parsing
  /\ peek(tks, tks_start, 1, "NewLine")
  /\ tks_start' = consume(tks, tks_start, "NewLine").start
  /\ UNCHANGED <<entry, input, pc, md, tks, root, html, err>>

\* line 417: parse returns the root; compile hands it to CodeGen
ParseReturn ==
  /\ pc = "parse"
  /\ tks_start >= Len(tks)
  /\ pc' = IF entry = "compile" THEN "gen" ELSE "done"
  /\ UNCHANGED <<entry, input, md, tks, tks_start, root, html, err>>

Gen ==
  /\ pc = "gen"
  /\ html' = gen(root).html
  /\ err' = gen(root).err
  /\ pc' = IF gen(root).err # "" THEN "raised" ELSE "done"
  /\ UNCHANGED <<entry, input, md, tks, tks_start, root>>

EscapeHtml ==
  /\ pc = "escape"
  /\ html' = escape_html(input)
  /\ pc' = "done"
  /\ UNCHANGED <<entry, input, md, tks, tks_start, root, err>>

Next ==
  \/ TryTokenizeHeader
  \/ TryTokenizeCodeBlock
  \/ TryTokenizeBlockQuote
  \/ TryTokenizeHorizontalRule
  \/ TryTokenizeList
  \/ TryTokenizeHeaderAlt
  \/ TryTokenizeNewLine
  \/ TokenizeCurrentLine
  \/ TokenizeReturn
  \/ ParseHeader
  \/ ParseCodeBlock
  \/ ParseBlockQuote
  \/ ParseHorizontalRule
  \/ ParseList
  \/ ParseImage
  \/ ParseParagraph
  \/ ParseNewLine
  \/ ParseReturn
  \/ Gen
  \/ EscapeHtml

Spec == Init /\ [][Next]_vars

------------------------------------------------------------------------------
(* Properties *)

\* the text that follows the first newline of m (empty if there is none)
AfterFirstNewline(m) == Drop(m, IndexFrom(m, NL, 0) + 1)

IsPlain(t) == \A i \in 1..Len(t) : t[i] \in PlainChars

\* the call has ended, by returning or by raising
Ended == pc \in {"done", "raised"}

\* C1: compile of a header line of size n in 1..6 with plain text t returns
\* '<hn>' + t + '<hn><hr>', with or without a newline at the end of the input.
C1_HeaderLineHtml ==
  \A n \in 1..6 : \A t \in PlainTexts \ {<< >>} : \A nl \in BOOLEAN :
    (entry = "compile" /\ input = HeaderInput(n, t, nl) /\ Ended)
      => /\ pc = "done"
         /\ html = <<"<", "h">> \o IntStr(n) \o <<">">> \o t
                     \o <<"<", "h">> \o IntStr(n) \o <<">">> \o <<"<", "h", "r", ">">>

\* C2: escape_html(s) is the concatenation, character by character, of the
\* entity of '<', '>', '&' and '"' and of every other character itself.
C2_EscapeCharByChar ==
  LET RECURSIVE Escaped(_)
      Escaped(str) ==
        IF str = << >> THEN << >>
        ELSE (IF Head(str) \in DOMAIN ESCAPE_HTML_MAP
              THEN ESCAPE_HTML_MAP[Head(str)] ELSE <<Head(str)>>)
             \o Escaped(Tail(str))
  IN  (entry = "escape_html" /\ pc = "done") => html = Escaped(input)

\* C3: tokenize never raises: no step of the tokenizer ends the call with an
\* exception.
C3_TokenizeNeverRaises == [][pc = "lex" => pc' # "raised"]_vars

\* C4: on an opening fence line with no closing ``` fence anywhere after it,
\* try_tokenize_code_block returns False and leaves md and tks as they are.
C4_OpenFenceDeclines ==
  LET code_start == IndexFrom(md, NL, 0) + 1
      closing == {i \in code_start..(Len(md) - 3) : Slice(md, i, i + 3) = Fence}
  IN  (pc = "lex" /\ CodeBlockMatch(md) /\ closing = {})
        => try_tokenize_code_block(md, tks) = Tried(FALSE, md, tks, "")

\* C5: a non-empty token sequence returned by tokenize ends with a NewLine
\* token.
C5_TokensEndWithNewLine ==
  (entry = "compile" /\ pc \in {"parse", "gen", "done"} /\ tks # << >>)
    => tks[Len(tks)].type = "NewLine"

\* tokenize has returned the tokens of an input whose last line has no newline
C5_Witness ==
  /\ entry = "compile"
  /\ pc = "parse"
  /\ tks # << >>
  /\ input # << >>
  /\ input[Len(input)] # NL

\* C6: compile("") is ""; for a line of plain text t, tokenize gives
\* [Text(t, false, false), NewLine], parse gives Root[Paragraph[Text(t)]], gen
\* gives '<p>' + t + '</p>', and no stage raises.
C6_PlainTextParagraph ==
  (entry = "compile" /\ IsPlain(input))
    => /\ pc # "raised"
       /\ pc \in {"parse", "gen", "done"}
            => tks = IF input = << >> THEN << >>
                     ELSE <<TextToken(input, FALSE, FALSE), NewLineToken>>
       /\ pc \in {"gen", "done"}
            => root = IF input = << >> THEN << >>
                      ELSE <<ASTParagraphNode(<<ASTTextNode(input, FALSE, FALSE)>>)>>
       /\ pc = "done"
            => html = IF input = << >> THEN << >> ELSE <<"<", "p", ">">> \o input \o <<"<", "/", "p", ">">>

\* compile has returned the paragraph of a non-empty plain text
C6_Witness ==
  /\ entry = "compile"
  /\ pc = "done"
  /\ IsPlain(input)
  /\ Len(input) = MaxTextLen
  /\ html # << >>

\* C7: when the block parser at the cursor must consume a token that is
\* missing or of another type (no NewLine after an Image, CodeBlock or
\* HorizontalRule token, or an inline run that does not end with NewLine),
\* parse raises RuntimeError, and a call that has raised never goes on to
\* return a tree or HTML.
C7_ConsumeFailureAborts ==
  [][LET RECURSIVE RunEnd(_)
         RunEnd(s) ==
           IF peek_any(tks, s, 1, INLINE_TOKENS) THEN RunEnd(s + 1)
           ELSE IF peek(tks, s, 1, "NewLine") /\ peek_any(tks, s, 2, INLINE_TOKENS)
           THEN RunEnd(s + 2)
           ELSE s
         MustFail ==
           \/ /\ peek_any(tks, tks_start, 1, {"Image", "CodeBlock", "HorizontalRule"})
              /\ ~peek(tks, tks_start, 2, "NewLine")
           \/ /\ peek_any(tks, tks_start, 1, {"Header", "ListItem"})
              /\ ~peek(tks, RunEnd(tks_start + 1), 1, "NewLine")
           \/ /\ peek_any(tks, tks_start, 1, INLINE_TOKENS)
              /\ ~peek(tks, RunEnd(tks_start), 1, "NewLine")
     IN  /\ (pc = "parse" /\ tks_start < Len(tks) /\ MustFail)
              => (pc' = "raised" /\ err' = "RuntimeError" /\ html' = << >>)
         /\ pc = "raised" => (pc' = "raised" /\ html' = << >>)]_vars

\* parse_image has raised on the Text token that follows an Image token
C7_Witness ==
  /\ pc = "raised"
  /\ err = "RuntimeError"
  /\ html = << >>
  /\ tks_start >= 2
  /\ tks[tks_start - 1].type = "Image"
  /\ tks[tks_start].type = "Text"

\* C8: a recognizer that runs the inline line scan leaves exactly the text
\* after the first newline of the remaining input (the setext recognizer, which
\* also deletes the underline line, the text after the second).
C8_LineScanRemovesOneLine ==
  [][/\ (TryTokenizeHeader \/ TryTokenizeBlockQuote \/ TryTokenizeList
           \/ TokenizeCurrentLine)
          => (pc' = "lex" /\ md' = AfterFirstNewline(md))
     /\ TryTokenizeHeaderAlt
          => (pc' = "lex" /\ md' = AfterFirstNewline(AfterFirstNewline(md)))]_vars

\* C9: on an opening fence line, code text and a closing ``` fence,
\* try_tokenize_code_block emits CodeBlock(lang, code), NewLine with code the
\* text between the two newlines, and consumes the input up to and including
\* the three backticks of the closing fence.
C9_CodeBlockConsumesFence ==
  [][LET code_start == IndexFrom(md, NL, 0) + 1
         closing == {i \in (code_start + 2)..(Len(md) - 3) : Slice(md, i, i + 3) = Fence}
         fence == CHOOSE i \in closing : \A o \in closing : i <= o
     IN  (/\ TryTokenizeCodeBlock
          /\ closing # {}
          /\ Ch(md, fence - 1) = NL
          /\ Count(Slice(md, code_start, fence), Backtick) = 0)
           => /\ tks' = tks \o <<CodeBlockToken(CodeBlockLang(md),
                                                Slice(md, code_start, fence - 1)),
                                 NewLineToken>>
              /\ md' = Drop(md, fence + 3)]_vars

\* C10: on a line made only of three or more '*' or of three or more '-',
\* try_tokenize_horizontal_rule emits HorizontalRule, NewLine and consumes the
\* line, whatever follows it.
C10_RuleLineRecognized ==
  LET eol == IndexFrom(md, NL, 0)
      RuleLine == eol >= 3 /\ (RunLen(md, "*", 0) = eol \/ RunLen(md, "-", 0) = eol)
  IN  (pc = "lex" /\ RuleLine)
        => try_tokenize_horizontal_rule(md, tks)
             = Tried(TRUE, AfterFirstNewline(md),
                     tks \o <<HorizontalRuleToken, NewLineToken>>, "")

\* the first line of m, without its newline
FirstLine(m) == Take(m, IndexFrom(m, NL, 0))

\* a line of only '=' or of only '-', spaces at its end allowed
IsUnderline(line) ==
  \/ RunLen(line, "=", 0) > 0
       /\ RunLen(line, "=", 0) + RunLen(line, " ", RunLen(line, "=", 0)) = Len(line)
  \/ RunLen(line, "-", 0) > 0
       /\ RunLen(line, "-", 0) + RunLen(line, " ", RunLen(line, "-", 0)) = Len(line)

\* C11: try_tokenize_header_alt returns True only when the line after the
\* current line is made only of '=' or only of '-', so the line it deletes is
\* always an underline line.
C11_SetextOnlyOnUnderline ==
  [][TryTokenizeHeaderAlt => IsUnderline(FirstLine(AfterFirstNewline(md)))]_vars

\* the tokens of two quoted lines of one Text token each
TwoQuotedLines ==
  /\ Len(tks) = 6
  /\ tks[1].type = "BlockQuote" /\ tks[2].type = "Text" /\ tks[3].type = "NewLine"
  /\ tks[4].type = "BlockQuote" /\ tks[5].type = "Text" /\ tks[6].type = "NewLine"

\* the QuoteItem of a quoted line whose content is the Text token tk
QuoteItemOf(tk) == ASTQuoteItemNode(<<ASTTextNode(tk.text, tk.bold, tk.italic)>>)

\* C12: the BlockQuote token of a second quoted line is placed by its indent:
\* at the indent of the open Quote its content becomes a new QuoteItem of that
\* Quote, at another indent it becomes the QuoteItem of a new Quote nested in
\* the root quote.
C12_QuotePlacedByIndent ==
  (pc \in {"gen", "done"} /\ entry \in {"compile", "parse"} /\ TwoQuotedLines)
    => root = <<ASTQuoteNode(<<QuoteItemOf(tks[2]),
                               IF tks[4].indent = tks[1].indent
                               THEN QuoteItemOf(tks[5])
                               ELSE ASTQuoteNode(<<QuoteItemOf(tks[5])>>)>>)>>

\* C13: gen returns an HTML string and raises nothing, on every tree it is
\* handed, a Quote node with a nested Quote node among its children included.
C13_GenReturnsHtml ==
  [][pc = "gen" => (pc' = "done" /\ err' = "")]_vars

\* the tokens are those of list-item lines of one Text token each
IsListLines(t) ==
  /\ Len(t) > 0
  /\ Len(t) % 3 = 0
  /\ \A i \in 1..(Len(t) \div 3) :
       /\ t[3 * i - 2].type = "ListItem"
       /\ t[3 * i - 2].indent >= 0
       /\ t[3 * i - 1].type = "Text"
       /\ t[3 * i].type = "NewLine"

\* the depth the i-th list-item line is to have: 0 for the first, then the
\* indent of its token, at most one more than the depth of the line before
RECURSIVE ItemDepth(_, _)
ItemDepth(t, i) ==
  IF i = 1 THEN 0 ELSE Min(ItemDepth(t, i - 1) + 1, t[3 * i - 2].indent)

\* every child of list is a ListItem whose only possible List child is its
\* last child, and so on below
RECURSIVE ListWellFormed(_)
ListWellFormed(list) ==
  \A i \in 1..Len(list.children) :
    /\ list.children[i].type = "ListItem"
    /\ \A j \in 1..Len(list.children[i].children) :
         list.children[i].children[j].type = "List"
           => /\ j = Len(list.children[i].children)
              /\ ListWellFormed(list.children[i].children[j])

\* the depths of the items of list, an item before the items nested in it
RECURSIVE ItemDepths(_, _)
RECURSIVE ItemsDepths(_, _)
ItemDepths(list, depth) == ItemsDepths(list.children, depth)

ItemsDepths(items, depth) ==
  IF items = << >> THEN << >>
  ELSE LET children == Head(items).children
           nested == IF children # << >> /\ children[Len(children)].type = "List"
                     THEN ItemDepths(children[Len(children)], depth + 1)
                     ELSE << >>
       IN  <<depth>> \o nested \o ItemsDepths(Tail(items), depth)

\* C14: on the tokens of list-item lines, whatever their indents, the stack
\* of open lists is never empty and holds the indents 0, 1, ..., k in order;
\* in the tree parse_list returns a ListItem has at most one List child, its
\* last, and the items in line order have the depths min(previous depth + 1,
\* indent), so a nested List hangs from the last item of the list above and
\* an indent jump of two or more levels counts as one.
C14_ListNesting ==
  /\ (pc = "parse" /\ tks_start = 0 /\ IsListLines(tks))
       => LET token == consume(tks, 0, "ListItem")
              list_stack == parse_list_from(tks, token, parse_inline(tks, token.start)).list_stack
          IN  /\ list_stack # << >>
              /\ \A i \in 1..Len(list_stack) : list_stack[i].indent = i - 1
  /\ (pc \in {"gen", "done"} /\ entry \in {"compile", "parse"} /\ IsListLines(tks))
       => /\ Len(root) = 1
          /\ root[1].type = "List"
          /\ ListWellFormed(root[1])
          /\ ItemDepths(root[1], 0) = [i \in 1..(Len(tks) \div 3) |-> ItemDepth(tks, i)]

\* parse has returned the tree of four list-item lines, the second indented
\* by two levels or more and the last back at the top level
C14_Witness ==
  /\ pc = "done"
  /\ entry = "parse"
  /\ IsListLines(tks)
  /\ Len(tks) = 12
  /\ tks[4].indent >= 2
  /\ tks[7].indent >= 2
  /\ tks[10].indent = 0
  /\ Len(root) = 1
  /\ Len(root[1].children) = 2

====
